---- MODULE Spec2Model ----
(***************************************************************************)
(* Model of the Modmail cog (src/cogs/modmail.py) and of the thread        *)
(* sessions, close timers and block registry its commands drive.           *)
(*                                                                         *)
(* Spec      : thread sessions - contact, close, close cancel, reply and   *)
(*             the delayed close action.                                   *)
(* SpecOpen  : two contact commands running concurrently.                  *)
(* SpecBlock : the block registry - block, unblock, the expiry check.      *)
(* SpecNotify: notify, subscribe, unsubscribe and the one-shot drain.      *)
(* SpecConfig: ConfigManager (src/core/config.py); SpecConfigLive adds the *)
(*             fairness of resuming a waiter.                              *)
(* SpecHistory: find_linked_message, edit, delete over a thread channel.   *)
(* SpecFire  : Spec with close actions whose payload can fail.             *)
(* SpecRefresh: refresh as fetch and merge, against cache writes.          *)
(* SpecPopulate: populate_cache over environments and config files.        *)
(*                                                                         *)
(* core/thread.py, core/time.py and bot.py are not among the source files; *)
(* what the commands call in them (Thread.close, Thread.cancel_closure,    *)
(* Thread.reply, ThreadManager.find/create, the blocked check, the drain   *)
(* of the one-shot mentions, the rendering of messages into the channel)   *)
(* is modelled from spec.md sections 4 and 5.                              *)
(***************************************************************************)
EXTENDS Integers, Sequences, FiniteSets, TLC

\* ---------------------------------------------------------------- bounds
MaxSessions == 2      \* Thread objects ever created
MaxActions == 2       \* delayed close actions ever scheduled
MaxTime == 2          \* the clock of the block registry runs 0..MaxTime
MaxMentions == 2      \* mentions registered per thread and registry
MaxHistory == 4       \* messages a thread channel ever receives
MaxScan == 3          \* messages ctx.channel.history() yields, newest first
MaxOpenTimers == 1    \* closes scheduled while contact commands are interleaved

Users == {"u1", "u2"}
Procs == {"p1", "p2"}          \* concurrent invocations of the contact command

\* ------------------------------------------------- strings as sequences
\* A Python str is a sequence of one-character strings.
NL == "\n"
NoneStr == <<"N", "o", "n", "e">>                             \* str(None)
Cancel == <<"c", "a", "n", "c", "e", "l">>
Silent == <<"s", "i", "l", "e", "n", "t">>
Silently == <<"s", "i", "l", "e", "n", "t", "l", "y">>

\* str.lower
UpperCase ==
    << "A", "B", "C", "D", "E", "F", "G", "H", "I", "J", "K", "L", "M",
       "N", "O", "P", "Q", "R", "S", "T", "U", "V", "W", "X", "Y", "Z" >>

LowerCase ==
    << "a", "b", "c", "d", "e", "f", "g", "h", "i", "j", "k", "l", "m",
       "n", "o", "p", "q", "r", "s", "t", "u", "v", "w", "x", "y", "z" >>

LowerChar(c) ==
    IF \E i \in 1..26 : UpperCase[i] = c
    THEN LowerCase[CHOOSE i \in 1..26 : UpperCase[i] = c]
    ELSE c

Lower(s) == [i \in DOMAIN s |-> LowerChar(s[i])]

StartsWith(s, p) == Len(s) >= Len(p) /\ SubSeq(s, 1, Len(p)) = p

\* -------------------------------------------------------------- sessions
VARIABLES
    threads,      \* the Thread objects ever created, in creation order
    cache,        \* ThreadManager.cache: recipient -> index in threads, 0 = none
    tasks,        \* the delayed close actions ever scheduled
    inv,          \* each contact invocation's position
    out,          \* what the last session command did and sent
    blocked,      \* config.cache['blocked']: user -> reason
    store,        \* the 'blocked' key as last pushed by config.update()
    origin,       \* who wrote each blocked entry, and the expiry it was given
    clock,        \* the time the block commands read
    bout          \* what the last block command did and sent

\* ------------------------------------------------- notification registries
VARIABLES
    squad,        \* config.cache['notification_squad']: thread id -> mentions
    subs,         \* config.cache['subscriptions']: thread id -> mentions
    nstore,       \* both keys as last pushed by config.update()
    nout          \* what the last notification command did and sent

\* ---------------------------------------------------------- ConfigManager
VARIABLES
    ccache,       \* ConfigManager._cache: key -> value
    remote,       \* the config document of the database
    ready,        \* ConfigManager._ready_event is set
    fetched,      \* some refresh has got its data from the database
    wpc,          \* each wait_until_ready caller's position
    cout,         \* what the last ConfigManager call did and returned
    rdata         \* the document a refresh suspended in get_config() has got

\* ------------------------------------------------------- linked messages
VARIABLES
    history,      \* the thread channel's messages, oldest first
    msgs_sent,    \* how many messages the channel has ever received
    hout          \* what the last edit / delete command did and sent

svars == <<threads, cache, tasks, inv, out>>
bvars == <<blocked, store, origin, clock, bout>>
nvars == <<squad, subs, nstore, nout>>
cvars == <<ccache, remote, ready, fetched, wpc, cout, rdata>>
hvars == <<history, msgs_sent, hout>>
xvars == <<nvars, cvars, hvars>>
vars == <<threads, cache, tasks, inv, out, blocked, store, origin, clock, bout,
          squad, subs, nstore, nout, ccache, remote, ready, fetched, wpc, cout,
          rdata,
          history, msgs_sent, hout>>

NoOut == [op |-> "none", user |-> "none", thread |-> 0, task |-> 0,
          ret |-> "none", notice |-> "none", silent |-> FALSE, delay |-> 0,
          field |-> FALSE, arg |-> <<>>]

\* the thread a command's ctx.thread is: a ready, open thread of the registry
OpenThreads ==
    {t \in DOMAIN threads : /\ threads[t].ready
                            /\ threads[t].state # "CLOSED"
                            /\ cache[threads[t].recipient] = t}

\* ---- Delayed Action Scheduler (spec.md 4.1)

\* schedule(duration, payload) -> actionId
schedule(ts, t) ==
    Append(ts, [thread |-> t, cancelled |-> FALSE, phase |-> "pending"])

\* cancel(actionId) -> bool: true iff it prevented the firing
cancel_ok(a) == tasks[a].phase = "pending" /\ ~tasks[a].cancelled

cancel(ts, a) ==
    IF ts[a].phase = "pending" /\ ~ts[a].cancelled
    THEN [ts EXCEPT ![a].cancelled = TRUE]
    ELSE ts

\* what a caller of cancel is told
cancel_ret(a) == IF a = 0 THEN "none" ELSE IF cancel_ok(a) THEN "true" ELSE "false"

\* the flag check of a firing attempt: does the action go on to its payload
fire_commits_unchecked(a) == TRUE

fire_commits(a) == ~tasks[a].cancelled

\* the timer expires: the atomic flag check, then commit
timer_fire(a) ==
    /\ a \in DOMAIN tasks
    /\ tasks[a].phase = "pending"
    /\ tasks' = [tasks EXCEPT ![a].phase =
                    IF fire_commits(a) THEN "firing" ELSE "skipped"]
    /\ out' = [NoOut EXCEPT !.op = "timer_fire", !.task = a,
                            !.thread = tasks[a].thread]
    /\ UNCHANGED <<threads, cache, inv, bvars, xvars>>

\* ---- Thread (spec.md 4.2)

\* Thread._close: the close side effects (closing notice unless silent,
\* teardown, closure record) happen together, counted in closes; the registry
\* entry goes and any timer of the thread is dropped
torn_down(th) ==
    [th EXCEPT !.state = "CLOSED", !.close_task = 0, !.closes = @ + 1]

\* may the payload of a committed close action tear the thread down
payload_closes_always(t) == TRUE

payload_closes(t) == threads[t].state = "CLOSING"

\* the payload of a committed close action, under the session's serialization
close_payload(a) ==
    /\ a \in DOMAIN tasks
    /\ tasks[a].phase = "firing"
    /\ LET t == tasks[a].thread
           closes == payload_closes(t)
           pend == threads[t].close_task
       IN  /\ threads' = IF closes
                         THEN [threads EXCEPT ![t] = torn_down(@)]
                         ELSE threads
           /\ cache' = IF closes /\ cache[threads[t].recipient] = t
                       THEN [cache EXCEPT ![threads[t].recipient] = 0]
                       ELSE cache
           /\ tasks' = LET fired == [tasks EXCEPT ![a].phase = "fired"]
                       IN  IF closes /\ pend # 0 /\ pend # a
                           THEN cancel(fired, pend)
                           ELSE fired
           /\ out' = [NoOut EXCEPT !.op = "close_payload", !.task = a, !.thread = t,
                                   !.notice = IF closes THEN "closed" ELSE "none"]
    /\ UNCHANGED <<inv, bvars, xvars>>

\* what the scheduler does with an action whose payload failed (spec.md 4.1:
\* "it is caught and reported, action is still marked fired. No retry")
payload_failure_retried(ts, a) == [ts EXCEPT ![a].phase = "pending"]

payload_failure(ts, a) == [ts EXCEPT ![a].phase = "fired"]

\* the payload of a committed close action fails in its teardown (spec.md 6,
\* TransientTransportError): reported through the firing context, the session
\* is left as it was
close_payload_fails(a) ==
    /\ a \in DOMAIN tasks
    /\ tasks[a].phase = "firing"
    /\ payload_closes(tasks[a].thread)
    /\ tasks' = payload_failure(tasks, a)
    /\ out' = [NoOut EXCEPT !.op = "close_payload", !.task = a,
                            !.thread = tasks[a].thread, !.notice = "failed"]
    /\ UNCHANGED <<threads, cache, inv, bvars, xvars>>

\* Thread.cancel_closure: cancel the pending action; the session returns to
\* ACTIVE only if the cancel prevented the firing
cancel_closure(t) ==
    LET a == threads[t].close_task
    IN  /\ tasks' = IF a = 0 THEN tasks ELSE cancel(tasks, a)
        /\ threads' = IF a # 0 /\ cancel_ok(a)
                      THEN [threads EXCEPT ![t].state = "ACTIVE", ![t].close_task = 0]
                      ELSE threads

\* Thread.close(closer, after, message, silent)
Thread_close_keeps_old_timer(t, delay, silent) ==
    IF delay > 0
    THEN /\ tasks' = schedule(tasks, t)
         /\ threads' = [threads EXCEPT ![t].state = "CLOSING",
                                       ![t].close_task = Len(tasks) + 1]
         /\ cache' = cache
    ELSE /\ tasks' = tasks
         /\ threads' = [threads EXCEPT ![t] = torn_down(@)]
         /\ cache' = [cache EXCEPT ![threads[t].recipient] = 0]

Thread_close(t, delay, silent) ==
    LET a == threads[t].close_task
        dropped == IF a = 0 THEN tasks ELSE cancel(tasks, a)
    IN  IF delay > 0
        THEN /\ tasks' = schedule(dropped, t)
             /\ threads' = [threads EXCEPT ![t].state = "CLOSING",
                                           ![t].close_task = Len(tasks) + 1]
             /\ cache' = cache
        ELSE /\ tasks' = dropped
             /\ threads' = [threads EXCEPT ![t] = torn_down(@)]
             /\ cache' = [cache EXCEPT ![threads[t].recipient] = 0]

\* ---- the commands of the cog

\* what the close command is given: no argument at all, or a UserFriendlyTime
\* whose dt lies delay seconds past the command's own now (0: no time given)
CloseArgs == { <<>>, <<"C", "a", "n", "c", "e", "l">>,
               <<"S", "I", "L", "E", "N", "T", "L", "Y">>, <<"b", "y", "e">> }
Delays == {0, 60}
NoAfter == [given |-> FALSE, delay |-> 0, arg |-> <<>>]
AfterInputs == {NoAfter} \cup [given : {TRUE}, delay : Delays, arg : CloseArgs]

close_message(after) == IF after.given THEN after.arg ELSE NoneStr
close_silent(after) == Lower(close_message(after)) \in {Silent, Silently}
close_cancel(after) == Lower(close_message(after)) = Cancel

\* send_scheduled_close_message(ctx, after, silent): the 'Scheduled close'
\* embed it sends, with a Message field `if after.arg and not silent`
send_scheduled_close_message(o, after, silent) ==
    [o EXCEPT !.notice = "scheduled_close",
              !.field = (after.arg # <<>> /\ ~silent)]

\* `if thread.close_task is not None` of close cancel
has_close_task_unchecked(t) == TRUE

has_close_task(t) == threads[t].close_task # 0

\* `if after and after.dt > now` of close
sends_scheduled_notice_unless_silent(after) ==
    after.given /\ after.delay > 0 /\ ~close_silent(after)

sends_scheduled_notice(after) == after.given /\ after.delay > 0

close(t, after) ==
    /\ t \in OpenThreads
    /\ LET silent == close_silent(after)
           plain == [NoOut EXCEPT !.op = "close", !.thread = t,
                                  !.user = threads[t].recipient, !.silent = silent,
                                  !.delay = after.delay, !.arg = after.arg]
       IN  IF close_cancel(after)
           THEN /\ IF has_close_task(t)
                   THEN /\ cancel_closure(t)
                        /\ out' = [plain EXCEPT !.task = threads[t].close_task,
                                                !.ret = cancel_ret(threads[t].close_task),
                                                !.notice = "cancelled"]
                   ELSE /\ UNCHANGED <<threads, tasks>>
                        /\ out' = [plain EXCEPT !.notice = "not_scheduled"]
                /\ UNCHANGED cache
           ELSE /\ after.delay > 0 => Len(tasks) < MaxActions
                /\ Thread_close(t, after.delay, silent)
                /\ out' = IF sends_scheduled_notice(after)
                          THEN send_scheduled_close_message(plain, after, silent)
                          ELSE [plain EXCEPT !.notice =
                                    IF after.delay > 0 \/ silent THEN "none"
                                    ELSE "closed"]
    /\ UNCHANGED <<inv, bvars, xvars>>

\* Thread.reply: the relay of a message, which cancels a pending close
Thread_reply_keeps_timer(t) == UNCHANGED <<threads, tasks>>

Thread_reply(t) == cancel_closure(t)

\* reply: hands the message to Thread.reply
reply(t) ==
    /\ t \in OpenThreads
    /\ Thread_reply(t)
    /\ out' = [NoOut EXCEPT !.op = "reply", !.thread = t,
                            !.user = threads[t].recipient,
                            !.task = threads[t].close_task,
                            !.ret = cancel_ret(threads[t].close_task)]
    /\ UNCHANGED <<cache, inv, bvars, xvars>>

Idle == [pc |-> "idle", user |-> "none", thread |-> 0]

\* contact, up to its first await: `if user.bot` and the call of threads.find
contact_call(p, u, is_bot) ==
    /\ inv[p].pc = "idle"
    /\ IF is_bot
       THEN /\ out' = [NoOut EXCEPT !.op = "contact", !.user = u,
                                    !.notice = "cannot_bot"]
            /\ UNCHANGED inv
       ELSE /\ inv' = [inv EXCEPT ![p] = [pc |-> "find", user |-> u, thread |-> 0]]
            /\ out' = [NoOut EXCEPT !.op = "contact_call", !.user = u]
    /\ UNCHANGED <<threads, cache, tasks, bvars, xvars>>

\* `exists = await self.bot.threads.find(recipient=user)`, `if exists`
contact_exists_ignored(u) == FALSE

contact_exists(u) == cache[u] # 0

\* ThreadManager.create: a new Thread, registered at once, its channel to come
new_thread(u) ==
    [recipient |-> u, state |-> "ACTIVE", ready |-> FALSE, close_task |-> 0,
     closes |-> 0]

\* contact resumes from find: the error embed, or threads.create
contact_found(p) ==
    /\ inv[p].pc = "find"
    /\ LET u == inv[p].user
       IN  IF contact_exists(u)
           THEN /\ out' = [NoOut EXCEPT !.op = "contact", !.user = u,
                                        !.thread = cache[u], !.notice = "exists"]
                /\ inv' = [inv EXCEPT ![p] = Idle]
                /\ UNCHANGED <<threads, cache>>
           ELSE /\ Len(threads) < MaxSessions
                /\ threads' = Append(threads, new_thread(u))
                /\ cache' = [cache EXCEPT ![u] = Len(threads) + 1]
                /\ inv' = [inv EXCEPT ![p].pc = "wait", ![p].thread = Len(threads) + 1]
                /\ out' = [NoOut EXCEPT !.op = "contact_create", !.user = u,
                                        !.thread = Len(threads) + 1]
    /\ UNCHANGED <<tasks, bvars, xvars>>

\* Thread.setup: the channel is created and the thread becomes ready
thread_setup(t) ==
    /\ t \in DOMAIN threads
    /\ ~threads[t].ready
    /\ threads' = [threads EXCEPT ![t].ready = TRUE]
    /\ out' = [NoOut EXCEPT !.op = "thread_setup", !.thread = t,
                            !.user = threads[t].recipient]
    /\ UNCHANGED <<cache, tasks, inv, bvars, xvars>>

\* contact resumes from thread.wait_until_ready() and sends 'Created thread'
contact_ready(p) ==
    /\ inv[p].pc = "wait"
    /\ threads[inv[p].thread].ready
    /\ out' = [NoOut EXCEPT !.op = "contact", !.user = inv[p].user,
                            !.thread = inv[p].thread, !.notice = "created"]
    /\ inv' = [inv EXCEPT ![p] = Idle]
    /\ UNCHANGED <<threads, cache, tasks, bvars, xvars>>

\* -------------------------------------------------------- block registry

\* 'System Message: ', the prefix reserved for automated blocks
SystemMarker ==
    << "S", "y", "s", "t", "e", "m", " ", "M", "e", "s", "s", "a", "g", "e", ":", " " >>

\* the value None of a reason, apart from every str
NoneReason == << "None" >>
NoUser == "none"

DigitChars == << "0", "1", "2", "3", "4", "5", "6", "7", "8", "9" >>

\* datetime.isoformat(): the expiry as text (the clock counts whole units,
\* written in decimal)
RECURSIVE isoformat(_)
isoformat(t) ==
    IF t < 10 THEN << DigitChars[t + 1] >>
    ELSE isoformat(t \div 10) \o << DigitChars[(t % 10) + 1] >>

IsDigit(c) == \E d \in 1..10 : DigitChars[d] = c
DigitValue(c) == (CHOOSE d \in 1..10 : DigitChars[d] = c) - 1

\* datetime.fromisoformat(): -1 stands for its ValueError
RECURSIVE fromisoformat(_)
fromisoformat(s) ==
    IF s = <<>> \/ \E i \in DOMAIN s : ~IsDigit(s[i]) THEN -1
    ELSE IF Len(s) = 1 THEN DigitValue(s[1])
    ELSE 10 * fromisoformat(SubSeq(s, 1, Len(s) - 1)) + DigitValue(s[Len(s)])

\* re.search(r'%(.+?)%$', s): `$` is the end of s or the place before a final
\* newline, `.` is any character but a newline, the leftmost start wins
EndPct(s) ==
    IF Len(s) >= 1 /\ s[Len(s)] = "%" THEN Len(s)
    ELSE IF Len(s) >= 2 /\ s[Len(s)] = NL /\ s[Len(s) - 1] = "%" THEN Len(s) - 1
    ELSE 0

MatchStarts(s) ==
    {i \in 1..(EndPct(s) - 2) :
        s[i] = "%" /\ \A k \in (i + 1)..(EndPct(s) - 1) : s[k] # NL}

re_search(s) == MatchStarts(s) # {}

re_group(s) ==
    LET i == CHOOSE x \in MatchStarts(s) : \A y \in MatchStarts(s) : x <= y
    IN  SubSeq(s, i + 1, EndPct(s) - 1)

\* f'{reason} %{after.dt.isoformat()}%'
with_expiry(reason, dt) == reason \o << " ", "%" >> \o isoformat(dt) \o << "%" >>

\* the reasons the block command is given
PlainArgs ==
    { <<>>, << "a" >>, << "a", "%" >>, << "%", "a", "%", " ", "b" >>,
      << "S", "y", "s", "t", "e", "m", " ", "M", "e", "s", "s", "a", "g", "e", ":" >> }
ReservedArgs == { SystemMarker, SystemMarker \o << "a" >> }
PlaceholderArgs ==
    { << "a", " ", "%", "9", "%" >>, << "%", "a", "%", NL >> }
ReasonArgs == PlainArgs \cup ReservedArgs \cup PlaceholderArgs

\* how a command names its user: the argument, or the thread it is sent in
UserInputs ==
    {<<u, NoUser>> : u \in Users} \cup {<<NoUser, "u1">>, <<NoUser, NoUser>>}

NoBlockAfter == [given |-> FALSE, arg |-> <<>>, dt |-> 0, now |-> 0]

\* a UserFriendlyTime read at the current time: its dt is before, at or
\* after its now
BlockAfterInputs ==
    {NoBlockAfter} \cup
    [given : {TRUE}, arg : ReasonArgs, now : {clock},
     dt : {d \in {clock - 1, clock, clock + 1} : d >= 0}]

NoBout == [op |-> "none", user |-> NoUser, given |-> FALSE, arg |-> <<>>,
           dt |-> 0, now |-> 0, result |-> "none", old |-> <<>>]

\* dict assignment and `del` on config.blocked
set_entry(b, u, reason) ==
    [x \in DOMAIN b \cup {u} |-> IF x = u THEN reason ELSE b[x]]

del_entry_all(b, u) == <<>>

del_entry(b, u) == [x \in DOMAIN b \ {u} |-> b[x]]

\* blocked_users.get(str(user.id)), with `if msg is None: msg = ''`
get_msg(u) == IF u \in DOMAIN blocked /\ blocked[u] # NoneReason THEN blocked[u] ELSE <<>>

\* `user` of block and unblock: the argument, else the recipient of ctx.thread
resolve_user(user, ctx_thread) == IF user # NoUser THEN user ELSE ctx_thread

\* `reason.startswith('System Message: ')`
reserved_only_exact(reason) == reason = SystemMarker

reserved(reason) == StartsWith(reason, SystemMarker)

\* `re.search(r'%(.+?)%$', reason) is not None`
placeholder_anywhere_but_end(reason) == FALSE

placeholder(reason) == re_search(reason)

\* `if after.dt > after.now`
expiry_given(after) == after.dt > after.now

\* the reason block stores: after.arg, with the expiry marker appended for a
\* future dt, and None for an empty reason
block_reason(after) ==
    LET r == IF ~after.given THEN <<>>
             ELSE IF expiry_given(after) THEN with_expiry(after.arg, after.dt)
             ELSE after.arg
    IN  IF r = <<>> THEN NoneReason ELSE r

\* `if str(user.id) not in self.bot.blocked_users or extend or
\* msg.startswith('System Message: ')`: may block store its reason
stores_unless_blocked(u, reason) == u \notin DOMAIN blocked \/ reason # NoneReason

stores_always(u, reason) == TRUE

stores(u, reason) ==
    u \notin DOMAIN blocked \/ reason # NoneReason \/ reserved(get_msg(u))

\* config.update(): the cache is pushed to the store; the Success embed names
\* the reason the user was previously blocked for
block(user, ctx_thread, after) ==
    LET u == resolve_user(user, ctx_thread)
        b == [NoBout EXCEPT !.op = "block", !.user = u, !.given = after.given,
                            !.arg = after.arg, !.dt = after.dt, !.now = after.now]
    IN  /\ IF u = NoUser
           THEN /\ bout' = [b EXCEPT !.result = IF after.given THEN "bad_user"
                                                ELSE "missing_user"]
                /\ UNCHANGED <<blocked, store, origin>>
           ELSE IF after.given /\ reserved(after.arg)
           THEN /\ bout' = [b EXCEPT !.result = "bad_argument"]
                /\ UNCHANGED <<blocked, store, origin>>
           ELSE IF after.given /\ placeholder(after.arg)
           THEN /\ bout' = [b EXCEPT !.result = "missing_argument"]
                /\ UNCHANGED <<blocked, store, origin>>
           ELSE LET reason == block_reason(after)
                IN  IF stores(u, reason)
                    THEN /\ blocked' = set_entry(blocked, u, reason)
                         /\ store' = blocked'
                         /\ origin' = set_entry(origin, u,
                                [by |-> "user",
                                 dt |-> IF after.given /\ expiry_given(after)
                                        THEN after.dt ELSE -1])
                         /\ bout' = [b EXCEPT !.result = "blocked",
                                               !.old = get_msg(u)]
                    ELSE /\ bout' = [b EXCEPT !.result = "already_blocked"]
                         /\ UNCHANGED <<blocked, store, origin>>
        /\ UNCHANGED <<svars, xvars, clock>>

unblock(user, ctx_thread) ==
    LET u == resolve_user(user, ctx_thread)
        b == [NoBout EXCEPT !.op = "unblock", !.user = u]
    IN  /\ IF u = NoUser
           THEN /\ bout' = [b EXCEPT !.result = "missing_user"]
                /\ UNCHANGED <<blocked, store, origin>>
           ELSE IF u \in DOMAIN blocked
           THEN /\ blocked' = del_entry(blocked, u)
                /\ store' = blocked'
                /\ origin' = [x \in DOMAIN blocked' |-> origin[x]]
                /\ bout' = [b EXCEPT !.result = IF reserved(get_msg(u))
                                                THEN "unblocked_internal"
                                                ELSE "unblocked"]
           ELSE /\ bout' = [b EXCEPT !.result = "not_blocked"]
                /\ UNCHANGED <<blocked, store, origin>>
        /\ UNCHANGED <<svars, xvars, clock>>

\* the expiry a stored reason carries: its trailing marker read back, -1 when
\* there is none or it is no time
expiry_of(reason) ==
    IF reason = NoneReason \/ ~re_search(reason) THEN -1
    ELSE fromisoformat(re_group(reason))

\* isBlocked(userId, now): an entry whose expiry marker is past counts as absent
is_blocked(u, now) ==
    /\ u \in DOMAIN blocked
    /\ expiry_of(blocked[u]) = -1 \/ now <= expiry_of(blocked[u])

\* the blocked check of an inbound message, which prunes an expired entry
check_blocked(u) ==
    /\ IF u \in DOMAIN blocked /\ ~is_blocked(u, clock)
       THEN /\ blocked' = del_entry(blocked, u)
            /\ store' = blocked'
            /\ origin' = [x \in DOMAIN blocked' |-> origin[x]]
       ELSE UNCHANGED <<blocked, store, origin>>
    /\ bout' = [NoBout EXCEPT !.op = "check", !.user = u, !.now = clock,
                              !.result = IF is_blocked(u, clock) THEN "blocked"
                                         ELSE "not_blocked"]
    /\ UNCHANGED <<svars, xvars, clock>>

\* an automated block: a reason under the reserved prefix, timed or not
system_block(u, timed) ==
    /\ u \notin DOMAIN blocked
    /\ blocked' = set_entry(blocked, u,
                     IF timed THEN with_expiry(SystemMarker \o << "a" >>, clock + 1)
                     ELSE SystemMarker \o << "a" >>)
    /\ store' = blocked'
    /\ origin' = set_entry(origin, u,
                    [by |-> "system", dt |-> IF timed THEN clock + 1 ELSE -1])
    /\ bout' = [NoBout EXCEPT !.op = "system_block", !.user = u, !.now = clock]
    /\ UNCHANGED <<svars, xvars, clock>>

tick ==
    /\ clock < MaxTime
    /\ clock' = clock + 1
    /\ bout' = [NoBout EXCEPT !.op = "tick", !.now = clock + 1]
    /\ UNCHANGED <<svars, xvars, blocked, store, origin>>

\* ------------------------------------------------------------ the system
\* ------------------------------------------------- notification registries
\* notify, subscribe, unsubscribe (src/cogs/modmail.py) and the drain of the
\* one-shot set by an inbound message (spec.md 4.4)

ThreadIds == {1, 2}                 \* thread.id of the threads the commands run in

Here == << "h", "e", "r", "e" >>
Everyone == << "e", "v", "e", "r", "y", "o", "n", "e" >>
AuthorMention == << "<", "@", "7", ">" >>         \* ctx.author.mention
BadRole == << "BadArgument" >>                    \* RoleConverter found no role

\* the role arguments the commands are given
NotifyRoles == { <<>>, << "m", "o", "d", "s" >>, << "x" >> }
SubscribeRoles == { <<>>, << "H", "e", "r", "e" >> }

\* RoleConverter().convert(ctx, role) and role.mention: the guild has the one
\* role 'mods'
role_mention(role) ==
    IF role = << "m", "o", "d", "s" >> THEN << "<", "@", "&", "1", ">" >> ELSE BadRole

\* the mention a command computes from its role argument
mention_of(role) ==
    IF role = <<>> THEN AuthorMention
    ELSE IF Lower(role) \in {Here, Everyone} THEN << "@" >> \o role
    ELSE role_mention(role)

NoNout == [op |-> "none", thread |-> 0, mention |-> <<>>, result |-> "none",
           drained |-> <<>>]

\* `mention in mentions`
In(m, mentions) == \E i \in DOMAIN mentions : mentions[i] = m

\* `if str(thread.id) not in config[...]: config[...][str(thread.id)] = []`
with_key_alone(reg, t) == IF t \in DOMAIN reg THEN reg ELSE (t :> <<>>)

with_key(reg, t) == IF t \in DOMAIN reg THEN reg ELSE reg @@ (t :> <<>>)

\* mentions.remove(mention): the first occurrence goes
list_remove(mentions, m) ==
    LET i == CHOOSE x \in DOMAIN mentions :
                 mentions[x] = m /\ \A y \in 1..(x - 1) : mentions[y] # m
    IN  SubSeq(mentions, 1, i - 1) \o SubSeq(mentions, i + 1, Len(mentions))

\* config.update(): the cache as the database receives it
pushed(sq, sb) == [squad |-> sq, subs |-> sb]

\* `if mention in mentions` of notify and subscribe
already_registered_never(m, mentions) == FALSE

already_registered(m, mentions) == In(m, mentions)

notify(t, role) ==
    LET m == mention_of(role)
        keyed == with_key(squad, t)
        o == [NoNout EXCEPT !.op = "notify", !.thread = t, !.mention = m]
    IN  /\ IF m = BadRole
           THEN /\ nout' = [o EXCEPT !.result = "bad_argument"]
                /\ UNCHANGED <<squad, nstore>>
           ELSE IF already_registered(m, keyed[t])
           THEN /\ squad' = keyed
                /\ nout' = [o EXCEPT !.result = "already"]
                /\ UNCHANGED nstore
           ELSE /\ Len(keyed[t]) < MaxMentions
                /\ squad' = [keyed EXCEPT ![t] = Append(@, m)]
                /\ nstore' = pushed(squad', subs)
                /\ nout' = [o EXCEPT !.result = "added"]
        /\ UNCHANGED <<subs, svars, bvars, cvars, hvars>>

subscribe(t, role) ==
    LET m == mention_of(role)
        keyed == with_key(subs, t)
        o == [NoNout EXCEPT !.op = "subscribe", !.thread = t, !.mention = m]
    IN  /\ IF m = BadRole
           THEN /\ nout' = [o EXCEPT !.result = "bad_argument"]
                /\ UNCHANGED <<subs, nstore>>
           ELSE IF already_registered(m, keyed[t])
           THEN /\ subs' = keyed
                /\ nout' = [o EXCEPT !.result = "already"]
                /\ UNCHANGED nstore
           ELSE /\ Len(keyed[t]) < MaxMentions
                /\ subs' = [keyed EXCEPT ![t] = Append(@, m)]
                /\ nstore' = pushed(squad, subs')
                /\ nout' = [o EXCEPT !.result = "added"]
        /\ UNCHANGED <<squad, svars, bvars, cvars, hvars>>

unsubscribe(t, role) ==
    LET m == mention_of(role)
        keyed == with_key(subs, t)
        o == [NoNout EXCEPT !.op = "unsubscribe", !.thread = t, !.mention = m]
    IN  /\ IF m = BadRole
           THEN /\ nout' = [o EXCEPT !.result = "bad_argument"]
                /\ UNCHANGED <<subs, nstore>>
           ELSE IF ~In(m, keyed[t])
           THEN /\ subs' = keyed
                /\ nout' = [o EXCEPT !.result = "not_subscribed"]
                /\ UNCHANGED nstore
           ELSE /\ subs' = [keyed EXCEPT ![t] = list_remove(@, m)]
                /\ nstore' = pushed(squad, subs')
                /\ nout' = [o EXCEPT !.result = "removed"]
        /\ UNCHANGED <<squad, svars, bvars, cvars, hvars>>

\* the one-shot set of a thread
OneShot(t) == IF t \in DOMAIN squad THEN squad[t] ELSE <<>>

\* drainOneShot leaves the set behind
drain_keeps(t) == squad

drain_clears(t) == [k \in DOMAIN squad \ {t} |-> squad[k]]

\* an inbound message of the thread: drainOneShot returns the one-shot
\* targets and clears them
drain(t) ==
    /\ squad' = drain_clears(t)
    /\ nstore' = pushed(squad', subs)
    /\ nout' = [NoNout EXCEPT !.op = "drain", !.thread = t, !.drained = OneShot(t)]
    /\ UNCHANGED <<subs, svars, bvars, cvars, hvars>>

\* ---------------------------------------------------------- ConfigManager
\* src/core/config.py

allowed_to_change_in_command ==
    { "twitch_url",
      "main_category_id", "disable_autoupdates", "prefix", "mention",
      "main_color", "user_typing", "mod_typing", "account_age", "guild_age",
      "reply_without_command",
      "log_channel_id",
      "sent_emoji", "blocked_emoji", "close_emoji", "disable_recipient_thread_close",
      "thread_creation_response", "thread_creation_footer", "thread_creation_title",
      "thread_close_footer", "thread_close_title", "thread_close_response",
      "thread_self_close_response",
      "recipient_color", "mod_tag", "mod_color",
      "anon_username", "anon_avatar_url", "anon_tag" }

internal_keys ==
    { "activity_message", "activity_type", "status", "oauth_whitelist",
      "blocked", "command_permissions", "level_permissions",
      "snippets", "notification_squad", "subscriptions", "closures",
      "aliases", "plugins" }

protected_keys ==
    { "modmail_guild_id", "guild_id", "log_url", "mongo_uri", "owners",
      "token", "github_access_token", "log_level" }

colors == { "mod_color", "recipient_color", "main_color" }

valid_keys == allowed_to_change_in_command \cup internal_keys \cup protected_keys

\* the keys and values the calls are given
SetKeys == { "prefix", "snippets", "token", "bogus" }
OldValue == << "a" >>
NewValue == << "b" >>
CleanKeys == { "main_color", "prefix" }

InvalidConfigError == << "InvalidConfigError" >>
NotAStr == << "<int>" >>             \* a value that is not a str

ColorInputs ==
    { << "f", "f", "0", "0", "0", "0" >>,
      << "#", "F", "F", "0", "0", "0", "0" >>,
      << "#", "f", "f", "0", "0", "0", "0" >>,
      << "F", "f", "0", "0", "0", "0" >>,
      << "z", "z", "z", "z", "z", "z" >>,
      << "f", "f", "0", "0" >>,
      << "#", "f", "f", "0", "0", "0" >>,
      << "r", "e", "d" >>,
      << "R", "e", "d" >>,
      NotAStr }

\* ALL_COLORS.get(val): the table of colour names
ALL_COLORS_get(val) ==
    IF val = << "r", "e", "d" >> THEN << "#", "f", "f", "0", "0", "0", "0" >>
    ELSE NoneReason

\* the letters clean_data accepts in a hex colour
HexLetters ==
    { "0", "1", "2", "3", "4", "5", "6", "7", "8", "9", "a", "b", "c", "d", "e", "f" }

\* `if val.startswith('#'): val = val[1:]`
strip_hash(val) ==
    IF Len(val) > 0 /\ val[1] = "#" THEN SubSeq(val, 2, Len(val)) ELSE val

\* clean_data(key, val): the clean value, or InvalidConfigError
clean_data(key, val) ==
    IF key \in colors
    THEN LET hex_ == ALL_COLORS_get(val)
             v == strip_hash(val)
         IN  IF hex_ = NoneReason
             THEN IF val = NotAStr THEN InvalidConfigError
                  ELSE IF Len(v) # 6 THEN InvalidConfigError
                  ELSE IF \E i \in DOMAIN v : v[i] \notin HexLetters
                       THEN InvalidConfigError
                  ELSE << "#" >> \o v
             ELSE hex_
    ELSE val

NoCout == [op |-> "none", key |-> "none", val |-> <<>>, result |-> <<>>]

call_clean_data(key, val) ==
    /\ cout' = [op |-> "clean_data", key |-> key, val |-> val,
                result |-> clean_data(key, val)]
    /\ UNCHANGED <<ccache, remote, ready, fetched, wpc, rdata, svars, bvars, nvars, hvars>>

\* __setitem__(key, item)
setitem(key, item) ==
    /\ ccache' = (key :> item) @@ ccache
    /\ cout' = [op |-> "set", key |-> key, val |-> item, result |-> << "ok" >>]
    /\ UNCHANGED <<remote, ready, fetched, wpc, rdata, svars, bvars, nvars, hvars>>

\* update(): api.update_config(self.cache)
update ==
    /\ remote' = ccache
    /\ cout' = [NoCout EXCEPT !.op = "update", !.result = << "ok" >>]
    /\ UNCHANGED <<ccache, ready, fetched, wpc, rdata, svars, bvars, nvars, hvars>>

\* does a refresh whose fetch raised set the ready event
failed_refresh_sets_ready == TRUE

failed_refresh_keeps_ready == ready

\* refresh(): `data = await self.api.get_config()` returns the document or
\* raises; then cache.update(data) and ready_event.set()
refresh(fetch_ok) ==
    /\ IF fetch_ok
       THEN /\ ccache' = remote @@ ccache
            /\ ready' = TRUE
            /\ fetched' = TRUE
            /\ cout' = [NoCout EXCEPT !.op = "refresh", !.key = "fetched",
                                       !.result = << "ok" >>]
       ELSE /\ ccache' = ccache
            /\ ready' = failed_refresh_keeps_ready
            /\ fetched' = fetched
            /\ cout' = [NoCout EXCEPT !.op = "refresh", !.key = "fetch_failed",
                                       !.result = << "error" >>]
    /\ UNCHANGED <<remote, wpc, rdata, svars, bvars, nvars, hvars>>

\* ---- populate_cache: the cache as built from the defaults, the environment
\* and config.json. A dict is the sequence of its <<key, value>> items in
\* insertion order; keys are texts, as the environment spells them
MaxEnv == 2           \* variables of the environment that bear on the cache

\* how the keys populate_cache can meet are written
Spelling ==
    [ snippets |-> << "s", "n", "i", "p", "p", "e", "t", "s" >>,
      plugins |-> << "p", "l", "u", "g", "i", "n", "s" >>,
      aliases |-> << "a", "l", "i", "a", "s", "e", "s" >>,
      blocked |-> << "b", "l", "o", "c", "k", "e", "d" >>,
      oauth_whitelist |-> << "o", "a", "u", "t", "h", "_", "w", "h", "i", "t", "e",
                             "l", "i", "s", "t" >>,
      command_permissions |-> << "c", "o", "m", "m", "a", "n", "d", "_", "p", "e", "r",
                                 "m", "i", "s", "s", "i", "o", "n", "s" >>,
      level_permissions |-> << "l", "e", "v", "e", "l", "_", "p", "e", "r", "m", "i",
                               "s", "s", "i", "o", "n", "s" >>,
      notification_squad |-> << "n", "o", "t", "i", "f", "i", "c", "a", "t", "i", "o",
                                "n", "_", "s", "q", "u", "a", "d" >>,
      subscriptions |-> << "s", "u", "b", "s", "c", "r", "i", "p", "t", "i", "o", "n",
                           "s" >>,
      closures |-> << "c", "l", "o", "s", "u", "r", "e", "s" >>,
      log_level |-> << "l", "o", "g", "_", "l", "e", "v", "e", "l" >>,
      token |-> << "t", "o", "k", "e", "n" >>,
      prefix |-> << "p", "r", "e", "f", "i", "x" >> ]

EmptyValue == << "{}" >>
Info == << "I", "N", "F", "O" >>

\* `data = {'snippets': {}, ..., 'log_level': 'INFO'}`
populate_defaults ==
    << << Spelling.snippets, EmptyValue >>, << Spelling.plugins, EmptyValue >>,
       << Spelling.aliases, EmptyValue >>, << Spelling.blocked, EmptyValue >>,
       << Spelling.oauth_whitelist, EmptyValue >>,
       << Spelling.command_permissions, EmptyValue >>,
       << Spelling.level_permissions, EmptyValue >>,
       << Spelling.notification_squad, EmptyValue >>,
       << Spelling.subscriptions, EmptyValue >>, << Spelling.closures, EmptyValue >>,
       << Spelling.log_level, Info >> >>

\* d[k] = v: in place for a key the dict has, at the end for a new one
dict_set(d, k, v) ==
    IF \E i \in DOMAIN d : d[i][1] = k
    THEN [i \in DOMAIN d |-> IF d[i][1] = k THEN << k, v >> ELSE d[i]]
    ELSE Append(d, << k, v >>)

\* d.update(o)
RECURSIVE dict_update(_, _)
dict_update(d, o) ==
    IF o = <<>> THEN d
    ELSE dict_update(dict_set(d, o[1][1], o[1][2]), Tail(o))

\* the key of valid_keys each text spells
key_named ==
    [text \in {Spelling[v] : v \in valid_keys \cap DOMAIN Spelling} |->
        CHOOSE v \in valid_keys \cap DOMAIN Spelling : Spelling[v] = text]

\* `k.lower() in self.valid_keys`
in_valid_keys_any(text) == TRUE

in_valid_keys(text) == text \in DOMAIN key_named

\* `k.lower(): v for k, v in data.items() if k.lower() in self.valid_keys`:
\* the items the comprehension yields, in order
RECURSIVE comprehension(_)
comprehension(data) ==
    IF data = <<>> THEN <<>>
    ELSE (IF in_valid_keys(Lower(data[1][1]))
          THEN << << Lower(data[1][1]), data[1][2] >> >> ELSE <<>>)
             \o comprehension(Tail(data))

\* the dict of those items: a later item replaces an earlier one of its key
RECURSIVE as_cache(_, _)
as_cache(items, acc) ==
    IF items = <<>> THEN acc
    ELSE as_cache(Tail(items),
                  IF items[1][1] \in DOMAIN key_named
                  THEN (key_named[items[1][1]] :> items[1][2]) @@ acc
                  ELSE acc)

\* the variables of os.environ and the keys of config.json
EnvKeys ==
    { << "T", "O", "K", "E", "N" >>, << "t", "o", "k", "e", "n" >>,
      << "P", "r", "e", "f", "i", "x" >>, << "P", "A", "T", "H" >>,
      << "L", "O", "G", "_", "L", "E", "V", "E", "L" >> }
FileKeys == { << "T", "o", "k", "e", "n" >>, << "b", "l", "o", "c", "k", "e", "d" >>,
              << "b", "o", "g", "u", "s" >> }

EnvInputs ==
    {e \in UNION {[1..n -> EnvKeys \X {NewValue}] : n \in 0..MaxEnv} :
        \A i, j \in DOMAIN e : i # j => e[i][1] # e[j][1]}
FileInputs ==
    {<<>>} \cup {<< << k, OldValue >> >> : k \in FileKeys}

\* populate_cache(): config.json is read when it exists (file # <<>>)
populate_cache(env, file) ==
    /\ cout' = [NoCout EXCEPT !.op = "populate_cache",
                               !.result = comprehension(
                                   dict_update(dict_update(populate_defaults, env), file))]
    /\ ccache' = as_cache(cout'.result, <<>>)
    /\ UNCHANGED <<remote, ready, fetched, wpc, rdata, svars, bvars, nvars, hvars>>

\* refresh() as its two steps: `data = await self.api.get_config()` gets the
\* document as the database holds it at that moment, and the caller resumes
\* later with `self.cache.update(data)` and `self.ready_event.set()`; nothing
\* keeps other coroutines from running in between
refresh_fetch(fetch_ok) ==
    /\ rdata = <<>>
    /\ IF fetch_ok
       THEN /\ rdata' = << remote >>
            /\ cout' = [NoCout EXCEPT !.op = "refresh_fetch"]
       ELSE /\ rdata' = rdata
            /\ cout' = [NoCout EXCEPT !.op = "refresh", !.key = "fetch_failed",
                                       !.result = << "error" >>]
    /\ UNCHANGED <<ccache, remote, ready, fetched, wpc, svars, bvars, nvars, hvars>>

refresh_merge ==
    /\ rdata # <<>>
    /\ ccache' = rdata[1] @@ ccache
    /\ ready' = TRUE
    /\ fetched' = TRUE
    /\ rdata' = <<>>
    /\ cout' = [NoCout EXCEPT !.op = "refresh", !.key = "fetched",
                               !.result = << "ok" >>]
    /\ UNCHANGED <<remote, wpc, svars, bvars, nvars, hvars>>

\* a registry-changing command (block: `self.bot.config.blocked[...] = reason`,
\* `await self.bot.config.update()`): the cache entry is written and the
\* cache is pushed to the database
RegistryKeys == { "blocked", "notification_squad" }
RegistryValues == { OldValue, NewValue }

registry_change(key, item) ==
    /\ ccache' = (key :> item) @@ ccache
    /\ remote' = (key :> item) @@ ccache
    /\ cout' = [op |-> "change", key |-> key, val |-> item, result |-> << "ok" >>]
    /\ UNCHANGED <<ready, fetched, wpc, rdata, svars, bvars, nvars, hvars>>

\* wait_until_ready(): `await self.ready_event.wait()` returns at once when
\* the event is set and suspends the caller otherwise
wait_call(p) ==
    /\ wpc[p] = "idle"
    /\ wpc' = [wpc EXCEPT ![p] = IF ready THEN "returned" ELSE "waiting"]
    /\ cout' = [NoCout EXCEPT !.op = "wait_call", !.key = p]
    /\ UNCHANGED <<ccache, remote, ready, fetched, rdata, svars, bvars, nvars, hvars>>

\* may a caller suspended in ready_event.wait() resume
wait_resumes_unready == TRUE

wait_resumes == ready

wait_return(p) ==
    /\ wpc[p] = "waiting"
    /\ wait_resumes
    /\ wpc' = [wpc EXCEPT ![p] = "returned"]
    /\ cout' = [NoCout EXCEPT !.op = "wait_return", !.key = p]
    /\ UNCHANGED <<ccache, remote, ready, fetched, rdata, svars, bvars, nvars, hvars>>

\* the caller goes on, and may wait again
wait_done(p) ==
    /\ wpc[p] = "returned"
    /\ wpc' = [wpc EXCEPT ![p] = "idle"]
    /\ cout' = [NoCout EXCEPT !.op = "wait_done", !.key = p]
    /\ UNCHANGED <<ccache, remote, ready, fetched, rdata, svars, bvars, nvars, hvars>>

\* ------------------------------------------------------- linked messages
\* find_linked_message, edit, delete (src/cogs/modmail.py) over the messages
\* of one thread channel; what Thread renders into the channel is modelled
\* from spec.md 4.5

\* who a message of the channel is from
MessageKinds == { "staff", "anon", "recipient", "plain", "preview" }

NoUrl == <<>>

\* the logical id a rendered message carries in its author url
logical_id(id) == id + 100

\* the message Thread sends into the channel: a staff or anonymous reply is an
\* embed of mod_color whose author url ends in the logical id, a recipient
\* message the same in recipient_color; the thread's opening message is a
\* system embed without author url; a plain message has no embed; a link
\* preview is an embed without colour
render(kind, id) ==
    [id |-> id, kind |-> kind, edited |-> FALSE,
     embeds |-> kind # "plain",
     color |-> CASE kind \in {"staff", "anon"} -> "mod_color"
                 [] kind = "recipient" -> "recipient_color"
                 [] kind = "system" -> "main_color"
                 [] OTHER -> "Empty",
     url |-> IF kind \in {"staff", "anon", "recipient"}
             THEN << "https:", "", "discordapp.com", "channels", "g", "c", logical_id(id) >>
             ELSE NoUrl]

\* str(url).split('/')[-1]; str of a missing url is 'Embed.Empty'
last_segment(url) == IF url = NoUrl THEN 0 ELSE url[Len(url)]

Found(n) == [kind |-> "id", id |-> n]
NotFound == [kind |-> "none", id |-> 0]
Raised == [kind |-> "error", id |-> 0]

\* the messages ctx.channel.history() yields
scanned_oldest_first(h) ==
    [i \in 1..(IF Len(h) < MaxScan THEN Len(h) ELSE MaxScan) |-> h[i]]

\* the messages ctx.channel.history() yields, newest first
scanned(h) ==
    [i \in 1..(IF Len(h) < MaxScan THEN Len(h) ELSE MaxScan) |-> h[Len(h) + 1 - i]]

\* find_linked_message over the messages ms from position i on; message_id 0
\* is None
RECURSIVE scan(_, _, _)
scan(ms, i, message_id) ==
    IF i > Len(ms) THEN NotFound
    ELSE LET msg == ms[i]
         IN  IF message_id = 0 /\ msg.embeds
             THEN IF msg.color = "Empty" THEN Raised
                  ELSE IF msg.color # "mod_color" \/ msg.url = NoUrl
                       THEN scan(ms, i + 1, message_id)
                  ELSE Found(last_segment(msg.url))
             ELSE IF message_id # 0 /\ msg.id = message_id
             THEN IF ~msg.embeds THEN Raised
                  ELSE Found(last_segment(msg.url))
             ELSE scan(ms, i + 1, message_id)

find_linked_message(message_id) == scan(scanned(history), 1, message_id)

\* the messages of the channel that carry a logical id
linked_to(h, n) == {i \in DOMAIN h : h[i].url # NoUrl /\ last_segment(h[i].url) = n}

NoHout == [op |-> "none", arg |-> <<>>, found |-> NotFound, result |-> "none",
           e2e |-> 0]

\* how far the channel is into the sequence open, one staff reply, edit
\* without id, delete of that reply, edit without id: the steps done, 0 when
\* the commands so far are not that sequence
e2e_next(o) ==
    IF o.op = "reply" /\ msgs_sent = 1 THEN 1
    ELSE IF hout.e2e = 1 /\ o.op = "edit" /\ o.arg = << 0 >> /\ o.result = "edited" THEN 2
    ELSE IF hout.e2e = 2 /\ o.op = "delete" /\ o.result = "deleted" /\ o.found = hout.found
         THEN 3
    ELSE IF hout.e2e = 3 /\ o.op = "edit" /\ o.arg = << 0 >> THEN 4
    ELSE 0

stamp(o) == [o EXCEPT !.e2e = e2e_next(o)]

\* a message arrives in the channel
post(kind) ==
    /\ msgs_sent < MaxHistory
    /\ msgs_sent' = msgs_sent + 1
    /\ history' = Append(history, render(kind, msgs_sent + 1))
    /\ hout' = stamp([NoHout EXCEPT !.op = IF kind = "staff" THEN "reply" ELSE "post",
                              !.found = Found(logical_id(msgs_sent + 1))])
    /\ UNCHANGED <<svars, bvars, nvars, cvars>>

\* edit(message_id, new_message)
edit(message_id) ==
    LET linked == find_linked_message(message_id)
        o == [NoHout EXCEPT !.op = "edit", !.arg = << message_id >>, !.found = linked]
    IN  /\ IF linked.kind = "error"
           THEN /\ hout' = stamp([o EXCEPT !.result = "raised"])
                /\ UNCHANGED history
           ELSE IF linked.kind = "none"
           THEN /\ hout' = stamp([o EXCEPT !.result = "cannot_find"])
                /\ UNCHANGED history
           ELSE IF linked_to(history, linked.id) = {}
           THEN /\ hout' = stamp([o EXCEPT !.result = "raised"])
                /\ UNCHANGED history
           ELSE /\ history' = [i \in DOMAIN history |->
                                  IF i \in linked_to(history, linked.id)
                                  THEN [history[i] EXCEPT !.edited = TRUE]
                                  ELSE history[i]]
                /\ hout' = stamp([o EXCEPT !.result = "edited"])
        /\ UNCHANGED <<msgs_sent, svars, bvars, nvars, cvars>>

\* int(message_id): -1 for ValueError, -2 for the TypeError of int(None)
int_(arg) == IF arg = NoneReason THEN 0 - 2 ELSE fromisoformat(arg)

\* the sequence h without the positions in gone
RECURSIVE without(_, _)
without(h, gone) ==
    IF h = <<>> THEN <<>>
    ELSE without(SubSeq(h, 1, Len(h) - 1), gone)
             \o (IF Len(h) \in gone THEN <<>> ELSE << h[Len(h)] >>)

\* the arguments delete is given: none, a word, the decimal text of an id
DeleteArgs == {NoneReason, << "a" >>} \cup {isoformat(i) : i \in 1..MaxHistory}

\* delete(message_id = None)
delete(arg) ==
    LET message_id == int_(arg)
        linked == find_linked_message(message_id)
        o == [NoHout EXCEPT !.op = "delete", !.arg = arg]
    IN  /\ IF message_id = 0 - 2
           THEN /\ hout' = stamp([o EXCEPT !.result = "type_error"])
                /\ UNCHANGED history
           ELSE IF message_id = 0 - 1
           THEN /\ hout' = stamp([o EXCEPT !.result = "bad_argument"])
                /\ UNCHANGED history
           ELSE IF linked.kind = "error"
           THEN /\ hout' = stamp([o EXCEPT !.result = "raised", !.found = linked])
                /\ UNCHANGED history
           ELSE IF linked.kind = "none"
           THEN /\ hout' = stamp([o EXCEPT !.result = "cannot_find", !.found = linked])
                /\ UNCHANGED history
           ELSE IF linked_to(history, linked.id) = {}
           THEN /\ hout' = stamp([o EXCEPT !.result = "raised", !.found = linked])
                /\ UNCHANGED history
           ELSE /\ history' = without(history, linked_to(history, linked.id))
                /\ hout' = stamp([o EXCEPT !.result = "deleted", !.found = linked])
        /\ UNCHANGED <<msgs_sent, svars, bvars, nvars, cvars>>

Init ==
    /\ threads = <<>>
    /\ cache = [u \in Users |-> 0]
    /\ tasks = <<>>
    /\ inv = [p \in Procs |-> Idle]
    /\ out = NoOut
    /\ blocked = <<>>
    /\ store = <<>>
    /\ origin = <<>>
    /\ clock = 0
    /\ bout = NoBout
    /\ squad = <<>>
    /\ subs = <<>>
    /\ nstore = pushed(<<>>, <<>>)
    /\ nout = NoNout
    /\ ccache = [k \in {"prefix", "snippets", "token"} |-> OldValue]
    /\ remote = [k \in {"prefix", "snippets"} |-> NewValue]
    /\ ready = FALSE
    /\ fetched = FALSE
    /\ rdata = <<>>
    /\ wpc = [p \in Procs |-> "idle"]
    /\ cout = NoCout
    /\ history = << render("system", 1) >>
    /\ msgs_sent = 1
    /\ hout = NoHout

\* Thread sessions: one staff member opening threads, every close input.
\* The users are interchangeable, so the first thread is opened for u1.
Next ==
    \/ \E u \in Users, is_bot \in BOOLEAN :
          (u = "u1" \/ threads # <<>>) /\ contact_call("p1", u, is_bot)
    \/ contact_found("p1")
    \/ \E t \in 1..MaxSessions : thread_setup(t)
    \/ contact_ready("p1")
    \/ \E t \in 1..MaxSessions, after \in AfterInputs : close(t, after)
    \/ \E t \in 1..MaxSessions : reply(t)
    \/ \E a \in 1..MaxActions : timer_fire(a)
    \/ \E a \in 1..MaxActions : close_payload(a)

Spec == Init /\ [][Next]_vars

\* Sessions whose scheduled close can fail at firing time
FireAfterInputs ==
    {NoAfter, [given |-> TRUE, delay |-> 60, arg |-> <<>>],
     [given |-> TRUE, delay |-> 0, arg |-> <<"C", "a", "n", "c", "e", "l">>]}

NextFire ==
    \/ \E u \in Users :
          (u = "u1" \/ threads # <<>>) /\ contact_call("p1", u, FALSE)
    \/ contact_found("p1")
    \/ \E t \in 1..MaxSessions : thread_setup(t)
    \/ contact_ready("p1")
    \/ \E t \in 1..MaxSessions, after \in FireAfterInputs : close(t, after)
    \/ \E t \in 1..MaxSessions : reply(t)
    \/ \E a \in 1..MaxActions : timer_fire(a)
    \/ \E a \in 1..MaxActions : close_payload(a)
    \/ \E a \in 1..MaxActions : close_payload_fails(a)

SpecFire == Init /\ [][NextFire]_vars

\* Opening threads: concurrent contact invocations, against closes that are
\* immediate or scheduled (the two invocations are interchangeable, and so
\* are the users: the second invocation is taken only while the first is
\* under way, and the first thread ever asked for is that of u1)
OpenAfterInputs == {NoAfter, [given |-> TRUE, delay |-> 60, arg |-> <<>>]}

NextOpen ==
    \/ \E p \in Procs, u \in Users, is_bot \in BOOLEAN :
          /\ p = "p1" \/ inv["p1"].pc # "idle"
          /\ is_bot \/ u = "u1" \/ threads # <<>> \/ inv["p1"].pc # "idle"
          /\ contact_call(p, u, is_bot)
    \/ \E p \in Procs : contact_found(p)
    \/ \E t \in 1..MaxSessions : thread_setup(t)
    \/ \E p \in Procs : contact_ready(p)
    \/ \E t \in 1..MaxSessions, after \in OpenAfterInputs :
          (after.delay > 0 => Len(tasks) < MaxOpenTimers) /\ close(t, after)
    \/ \E a \in 1..MaxActions : timer_fire(a)
    \/ \E a \in 1..MaxActions : close_payload(a)

SpecOpen == Init /\ [][NextOpen]_vars

\* The block registry
NextBlock ==
    \/ \E who \in UserInputs, after \in BlockAfterInputs : block(who[1], who[2], after)
    \/ \E who \in UserInputs : unblock(who[1], who[2])
    \/ \E u \in Users : check_blocked(u)
    \/ \E u \in Users, timed \in BOOLEAN : system_block(u, timed)
    \/ tick

SpecBlock == Init /\ [][NextBlock]_vars

\* The notification registries
NextNotify ==
    \/ \E t \in ThreadIds, role \in NotifyRoles : notify(t, role)
    \/ \E t \in ThreadIds, role \in SubscribeRoles : subscribe(t, role)
    \/ \E t \in ThreadIds, role \in SubscribeRoles : unsubscribe(t, role)
    \/ \E t \in ThreadIds : drain(t)

SpecNotify == Init /\ [][NextNotify]_vars

\* ConfigManager
NextConfig ==
    \/ \E key \in CleanKeys, val \in ColorInputs : call_clean_data(key, val)
    \/ \E key \in SetKeys : setitem(key, NewValue)
    \/ update
    \/ \E fetch_ok \in BOOLEAN : refresh(fetch_ok)
    \/ \E p \in Procs : wait_call(p)
    \/ \E p \in Procs : wait_return(p)
    \/ \E p \in Procs : wait_done(p)

SpecConfig == Init /\ [][NextConfig]_vars

\* ConfigManager.refresh interleaved with the commands that write the cache
NextRefresh ==
    \/ \E fetch_ok \in BOOLEAN : refresh_fetch(fetch_ok)
    \/ refresh_merge
    \/ \E key \in RegistryKeys, item \in RegistryValues : registry_change(key, item)

SpecRefresh == Init /\ [][NextRefresh]_vars

\* The cache as populate_cache builds it, and as later writes leave it
NextPopulate ==
    \/ \E env \in EnvInputs, file \in FileInputs : populate_cache(env, file)
    \/ \E key \in SetKeys : setitem(key, NewValue)

SpecPopulate == Init /\ [][NextPopulate]_vars

\* The linked messages of one thread channel
NextHistory ==
    \/ \E kind \in MessageKinds : post(kind)
    \/ \E message_id \in 0..MaxHistory : edit(message_id)
    \/ \E arg \in DeleteArgs : delete(arg)

SpecHistory == Init /\ [][NextHistory]_vars

\* ConfigManager with the event loop resuming a caller whose event is set
SpecConfigLive == SpecConfig /\ \A p \in Procs : WF_vars(wait_return(p))

\* ------------------------------------------------------------ the claims

NonClosed(u) ==
    {t \in DOMAIN threads : threads[t].recipient = u /\ threads[t].state # "CLOSED"}

OneSessionPerRecipient == \A u \in Users : Cardinality(NonClosed(u)) <= 1

DuplicateOpenFails ==
    \A p \in Procs :
        (inv[p].pc = "find" /\ inv'[p].pc # "find" /\ NonClosed(inv[p].user) # {})
            => /\ out'.op = "contact" /\ out'.notice = "exists"
               /\ UNCHANGED <<threads, cache, tasks>>

\* C1: under any interleaving of contact invocations, also two that are both
\* suspended in the lookup or in channel creation, a recipient never has two
\* sessions that are not CLOSED; a contact that finds an ACTIVE or CLOSING
\* session of the recipient reports that the thread exists, creates no thread
\* and leaves the existing one as it was.
C1_OneSessionPerRecipient == []OneSessionPerRecipient /\ [][DuplicateOpenFails]_vars

\* two invocations for one recipient in flight: one suspended in channel
\* creation, the other just told that the thread exists
C1_Witness ==
    /\ out.op = "contact" /\ out.notice = "exists"
    /\ \E p \in Procs : inv[p].pc = "wait" /\ inv[p].user = out.user
    /\ ~threads[out.thread].ready

RelayCancelsClose ==
    \A t \in DOMAIN threads :
        LET a == threads[t].close_task
        IN  (out'.op = "reply" /\ out'.thread = t /\ a # 0 /\ tasks[a].phase = "pending")
                => /\ threads'[t].state = "ACTIVE" /\ threads'[t].close_task = 0
                   /\ tasks'[a].cancelled

CancelledFiringSkips ==
    \A a \in DOMAIN tasks :
        (tasks[a].cancelled /\ tasks[a].phase = "pending" /\ tasks'[a] # tasks[a])
            => /\ tasks'[a].phase = "skipped" /\ tasks'[a].cancelled
               /\ UNCHANGED <<threads, cache>>

SkippedStaysSkipped ==
    \A a \in DOMAIN tasks : tasks[a].phase = "skipped" => tasks'[a] = tasks[a]

\* C2: a reply in a thread whose scheduled close has not fired yet leaves the
\* thread ACTIVE with no timer and the action cancelled; when that action later
\* attempts to fire it observes the flag, is skipped for good, and no thread is
\* torn down by it.
C2_RelayCancelsScheduledClose ==
    [][RelayCancelsClose /\ CancelledFiringSkips /\ SkippedStaysSkipped]_vars

\* a reply has just cancelled a pending close
C2_Witness ==
    /\ out.op = "reply" /\ out.ret = "true"
    /\ threads[out.thread].state = "ACTIVE"
    /\ tasks[out.task].cancelled /\ tasks[out.task].phase = "pending"

\* C3: close cancel in a thread with no pending scheduled close sends the
\* 'has not already been scheduled' embed and changes no thread, no action,
\* no registry and no configuration.
C3_CancelWithoutScheduleChangesNothing ==
    [][\A t \in DOMAIN threads :
          (out'.op = "close" /\ out'.thread = t /\ Lower(out'.arg) = Cancel
           /\ threads[t].close_task = 0)
              => /\ out'.notice = "not_scheduled"
                 /\ UNCHANGED <<threads, cache, tasks, inv, bvars>>]_vars

\* close cancel was just refused in an ACTIVE thread that had a close
\* scheduled and cancelled before
C3_Witness ==
    /\ out.op = "close" /\ out.notice = "not_scheduled"
    /\ threads[out.thread].state = "ACTIVE"
    /\ \E a \in DOMAIN tasks : tasks[a].thread = out.thread /\ tasks[a].cancelled

ClosedIsTerminal ==
    \A t \in DOMAIN threads : threads[t].state = "CLOSED" => threads'[t] = threads[t]

ClosedOnce ==
    \A t \in DOMAIN threads :
        /\ threads[t].closes <= 1
        /\ threads[t].state = "CLOSED" <=> threads[t].closes = 1

\* C4: a CLOSED thread is never changed again by any command or timer, and the
\* side effects of closing happen exactly once for a CLOSED thread and not at
\* all for any other.
C4_ClosedIsTerminal == []ClosedOnce /\ [][ClosedIsTerminal]_vars

\* the payload of a committed close action ran on a thread that a close
\* command had already closed, and did nothing
C4_Witness ==
    /\ out.op = "close_payload" /\ out.notice = "none"
    /\ threads[out.thread].state = "CLOSED"

PhaseOrder ==
    \A a \in DOMAIN tasks :
        /\ tasks'[a].thread = tasks[a].thread
        /\ tasks[a].cancelled => tasks'[a].cancelled
        /\ \/ tasks'[a].phase = tasks[a].phase
           \/ tasks[a].phase = "pending" /\ tasks'[a].phase \in {"firing", "skipped"}
           \/ tasks[a].phase = "firing" /\ tasks'[a].phase = "fired"
        /\ tasks[a].phase # "pending" => tasks'[a].cancelled = tasks[a].cancelled

CancelReturn ==
    /\ out'.ret = "true" =>
          /\ tasks[out'.task].phase = "pending" /\ ~tasks[out'.task].cancelled
          /\ tasks'[out'.task].cancelled /\ tasks'[out'.task].phase = "pending"
    /\ out'.ret = "false" =>
          /\ tasks[out'.task].phase \in {"firing", "fired"}
          /\ tasks'[out'.task] = tasks[out'.task]

CancelledNeverRuns ==
    \A a \in DOMAIN tasks : tasks[a].cancelled => tasks[a].phase \in {"pending", "skipped"}

LiveTimer ==
    \A t \in DOMAIN threads :
        LET a == threads[t].close_task
        IN  a # 0 => /\ a \in DOMAIN tasks /\ tasks[a].thread = t
                     /\ ~tasks[a].cancelled /\ tasks[a].phase \in {"pending", "firing"}

\* C5: an action goes pending -> firing -> fired or pending -> skipped and
\* never back, a thread's timer is never an action that has fired or been
\* cancelled, cancel returns true exactly when the action was still pending
\* and not cancelled (and false once the firing has committed), and a
\* cancelled action never commits or runs its payload.
C5_FiresOnceCancelWins ==
    []CancelledNeverRuns /\ []LiveTimer /\ [][PhaseOrder /\ CancelReturn]_vars

\* close cancel came after the firing had committed: cancel returned false
\* and the action is on its way to the payload
C5_Witness ==
    /\ out.op = "close" /\ out.ret = "false"
    /\ tasks[out.task].phase = "firing" /\ ~tasks[out.task].cancelled

\* C6 as claimed: a close with a delay emits the scheduled-close notice if
\* and only if it is not silent.
C6_NoticeIffNotSilent ==
    (out.op = "close" /\ out.delay > 0 /\ Lower(out.arg) # Cancel)
        => (out.notice = "scheduled_close" <=> ~out.silent)

\* C6 as amended: a close with a delay leaves the thread CLOSING with a live
\* pending action and always sends the 'Scheduled close' embed, silent or not;
\* the embed carries the custom message exactly when one was given and the
\* close is not silent.
C6_ScheduledCloseAlwaysNoticed ==
    (out.op = "close" /\ out.delay > 0 /\ Lower(out.arg) # Cancel)
        => /\ out.notice = "scheduled_close"
           /\ out.field <=> (out.arg # <<>> /\ ~out.silent)
           /\ LET a == threads[out.thread].close_task
              IN  /\ threads[out.thread].state = "CLOSING"
                  /\ a # 0 /\ tasks[a].phase = "pending" /\ ~tasks[a].cancelled

\* a silent close was just scheduled, and the embed was sent
C6_Witness ==
    /\ out.op = "close" /\ out.delay > 0 /\ out.silent
    /\ out.notice = "scheduled_close"
    /\ threads[out.thread].state = "CLOSING"

\* C7 as claimed: once block has stored an entry for a user with an expiry
\* earlier than the current time, the user is reported as not blocked.
C7_PastExpiryNotBlocked ==
    (bout.op = "block" /\ bout.result = "blocked" /\ bout.given /\ bout.dt < bout.now)
        => ~is_blocked(bout.user, clock)

\* C8: block with a reason that is, or begins with, 'System Message: ' raises
\* BadArgument and leaves the block registry and the pushed config as they were.
C8_ReservedReasonRejected ==
    [][(bout'.op = "block" /\ bout'.user # NoUser /\ bout'.given
        /\ StartsWith(bout'.arg, SystemMarker))
          => /\ bout'.result = "bad_argument"
             /\ UNCHANGED <<blocked, store, origin>>]_vars

\* block was just refused for a reason that is exactly the reserved prefix,
\* for a user who has an entry
C8_Witness ==
    /\ bout.op = "block" /\ bout.result = "bad_argument" /\ bout.arg = SystemMarker
    /\ bout.user \in DOMAIN blocked

\* C9 as claimed: a reason in which the expiry pattern %(.+?)%$ finds a match
\* is refused by block, so whenever that pattern finds a marker in a reason
\* that block stored, the marker is the timestamp block generated from the
\* expiry argument.
C9_StoredMarkerIsGenerated ==
    \A u \in DOMAIN blocked :
        (origin[u].by = "user" /\ blocked[u] # NoneReason /\ re_search(blocked[u]))
            => /\ origin[u].dt >= 0
               /\ re_group(blocked[u]) = isoformat(origin[u].dt)

UnblockEffect ==
    (bout'.op = "unblock" /\ bout'.user # NoUser) =>
        LET u == bout'.user
        IN  IF u \in DOMAIN blocked
            THEN /\ DOMAIN blocked' = DOMAIN blocked \ {u}
                 /\ \A v \in DOMAIN blocked' : blocked'[v] = blocked[v]
                 /\ store' = blocked'
                 /\ bout'.result \in {"unblocked", "unblocked_internal"}
                 /\ bout'.result = "unblocked_internal" <=>
                        (blocked[u] # NoneReason /\ StartsWith(blocked[u], SystemMarker))
            ELSE /\ bout'.result = "not_blocked"
                 /\ UNCHANGED <<blocked, store, origin>>

\* C10: unblock of a user with no entry reports 'is not blocked' and changes
\* neither the registry nor the pushed config; unblock of a user with an entry
\* removes that entry and no other, pushes the result, and reports an internal
\* block exactly when the removed reason began with 'System Message: '.
C10_UnblockEffect == [][UnblockEffect]_vars

\* an automated block was just lifted while the other user stays blocked
C10_Witness ==
    /\ bout.op = "unblock" /\ bout.result = "unblocked_internal"
    /\ DOMAIN blocked # {} /\ bout.user \notin DOMAIN blocked

NoDuplicates(reg) ==
    \A t \in DOMAIN reg : \A i, j \in DOMAIN reg[t] : reg[t][i] = reg[t][j] => i = j

Registered(reg, t, m) == t \in DOMAIN reg /\ In(m, reg[t])

DuplicateRegistration ==
    (\/ nout'.op = "notify" /\ Registered(squad, nout'.thread, nout'.mention)
     \/ nout'.op = "subscribe" /\ Registered(subs, nout'.thread, nout'.mention))
        => /\ nout'.result = "already"
           /\ UNCHANGED <<squad, subs, nstore>>

\* C11: no mention appears twice in a thread's one-shot list or in its
\* subscription list, and a notify or subscribe of a mention that is already
\* in the list reports 'already' and leaves both registries and the pushed
\* config as they were.
C11_MentionsRegisteredOnce ==
    /\ [](NoDuplicates(squad) /\ NoDuplicates(subs))
    /\ [][DuplicateRegistration]_vars

\* a subscribe was just refused as a duplicate in a thread with two subscribers
C11_Witness ==
    /\ nout.op = "subscribe" /\ nout.result = "already"
    /\ Len(subs[nout.thread]) = 2

\* C12 as claimed: unsubscribe of a mention that is not subscribed in the
\* thread reports 'not subscribed' and leaves the subscriptions registry, its
\* thread keys included, and the pushed config as they were.
C12_UnsubscribeAbsentChangesNothing ==
    [][(nout'.op = "unsubscribe" /\ nout'.mention # BadRole
        /\ ~Registered(subs, nout'.thread, nout'.mention))
          => /\ nout'.result = "not_subscribed"
             /\ UNCHANGED <<subs, squad, nstore>>]_vars

DrainReturnsAndClears ==
    nout'.op = "drain" =>
        LET t == nout'.thread
        IN  /\ nout'.drained = OneShot(t)
            /\ \A m \in {AuthorMention} \cup {mention_of(r) : r \in NotifyRoles} :
                   Cardinality({i \in DOMAIN nout'.drained : nout'.drained[i] = m})
                       = IF Registered(squad, t, m) THEN 1 ELSE 0
            /\ t \notin DOMAIN squad' \/ squad'[t] = <<>>

NotifyAdds ==
    (nout'.op = "notify" /\ nout'.result = "added")
        => Registered(squad', nout'.thread, nout'.mention)

SecondDrainEmpty ==
    (nout.op = "drain" /\ nout'.op = "drain" /\ nout'.thread = nout.thread)
        => nout'.drained = <<>>

\* C13: a mention added by notify is in the thread's one-shot set; a drain
\* returns every mention of the set exactly once and leaves the set empty; a
\* drain that directly follows a drain of the same thread returns nothing.
C13_OneShotDrainedOnce ==
    [][DrainReturnsAndClears /\ NotifyAdds /\ SecondDrainEmpty]_vars

\* a drain just returned two one-shot mentions
C13_Witness == nout.op = "drain" /\ Len(nout.drained) = 2

IsHexDigit(c) == Lower(<< c >>)[1] \in HexLetters

IsHexColor(val) ==
    /\ val # NotAStr
    /\ Len(strip_hash(val)) = 6
    /\ \A i \in DOMAIN strip_hash(val) : IsHexDigit(strip_hash(val)[i])

\* C14 as claimed: clean_data of a colour key gives every 6-hex-digit input,
\* with or without '#' and in any letter case, the one canonical value ('#'
\* and the digits in lower case), gives a colour name its hex value, and
\* raises InvalidConfigError for every other input.
C14_ColorNormalized ==
    (cout.op = "clean_data" /\ cout.key \in colors) =>
        cout.result =
            IF ALL_COLORS_get(cout.val) # NoneReason THEN ALL_COLORS_get(cout.val)
            ELSE IF IsHexColor(cout.val) THEN << "#" >> \o Lower(strip_hash(cout.val))
            ELSE InvalidConfigError

\* C15 as claimed: a set of a key outside the user-editable namespace is
\* rejected and leaves the cache as it was.
C15_ProtectedSetRejected ==
    [][(cout'.op = "set" /\ cout'.key \notin allowed_to_change_in_command)
          => /\ cout'.result = << "rejected" >>
             /\ ccache' = ccache]_vars

\* C16: a refresh whose fetch fails raises to its caller, leaves every cached
\* value as it was and does not set the ready event.
C16_FailedRefreshKeepsCache ==
    [][(cout'.op = "refresh" /\ cout'.key = "fetch_failed")
          => /\ cout'.result = << "error" >>
             /\ ccache' = ccache
             /\ ready' = ready]_vars

\* a refresh just failed before any has succeeded, with the cache stale
C16_Witness ==
    /\ cout.op = "refresh" /\ cout.key = "fetch_failed"
    /\ ~ready
    /\ remote @@ ccache # ccache

ReturnsOnlyAfterRefresh ==
    /\ ready => fetched
    /\ \A p \in Procs : wpc[p] = "returned" => fetched

ReadyStable == ready => ready'

\* C17: wait_until_ready returns only after some refresh has succeeded; the
\* ready event, once set, stays set, also across failed refreshes; and a
\* suspended caller resumes once the event is set.
C17_WaitUntilReady ==
    /\ []ReturnsOnlyAfterRefresh
    /\ [][ReadyStable]_vars
    /\ \A p \in Procs : (wpc[p] = "waiting" /\ ready) ~> (wpc[p] = "returned")

\* a suspended caller was just resumed, and a later refresh failed
C17_Witness ==
    /\ wpc["p1"] = "returned" /\ wpc["p2"] = "waiting"
    /\ cout.op = "refresh" /\ cout.key = "fetch_failed" /\ ready

\* the staff and anonymous replies among messages
StaffReplies(ms) == {i \in DOMAIN ms : ms[i].kind \in {"staff", "anon"}}

\* the logical id of the newest staff reply the scan yields, if any
NewestStaffReply(h) ==
    LET ms == scanned(h)
        S == StaffReplies(ms)
    IN  IF S = {} THEN NotFound
        ELSE Found(logical_id(ms[CHOOSE i \in S : \A j \in S : i <= j].id))

\* C18 as claimed: with no message id the lookup returns the logical id of
\* the newest staff or anonymous reply among the scanned messages, whatever
\* other messages lie before it, and none exactly when there is no such reply.
C18_NewestStaffReplyFound ==
    (hout.op = "edit" /\ hout.arg = << 0 >>) => hout.found = NewestStaffReply(history)

\* C19 as claimed: delete without a message id deletes the newest staff reply
\* of the thread, the reply edit without an id would edit; delete with the id
\* of a staff reply deletes that reply.
C19_DeleteDefaultsToLastReply ==
    [][/\ (hout'.op = "delete" /\ hout'.arg = NoneReason
           /\ NewestStaffReply(history).kind = "id")
          => /\ hout'.result = "deleted"
             /\ linked_to(history', NewestStaffReply(history).id) = {}
       /\ \A i \in StaffReplies(scanned(history)) :
            (hout'.op = "delete" /\ hout'.arg = isoformat(scanned(history)[i].id))
               => /\ hout'.result = "deleted"
                  /\ \A k \in DOMAIN history' : history'[k].id # scanned(history)[i].id
      ]_vars

ResolveAfterRelay ==
    (hout.op = "reply" /\ hout'.op = "edit" /\ hout'.arg = << 0 >>)
        => /\ hout'.found = hout.found
           /\ hout'.result = "edited"
           /\ \E k \in linked_to(history', hout.found.id) : history'[k].edited

DeleteAfterEdit ==
    (/\ hout.op = "edit" /\ hout.result = "edited"
     /\ hout'.op = "delete"
     /\ \E k \in linked_to(history, hout.found.id) :
            hout'.arg = isoformat(history[k].id))
        => /\ hout'.result = "deleted"
           /\ hout'.found = hout.found
           /\ linked_to(history', hout.found.id) = {}

ResolveAfterDelete ==
    (/\ hout.op = "delete" /\ hout.result = "deleted"
     /\ hout'.op = "edit" /\ hout'.arg = << 0 >>
     /\ \A k \in DOMAIN history : history[k].kind \in {"system", "plain", "recipient"})
        => /\ hout'.found = NotFound
           /\ hout'.result = "cannot_find"

\* C20: an edit without id that follows a staff reply finds the entry just
\* sent and edits it; a delete given the id of the message just edited
\* deletes it; and an edit without id that follows a delete, in a channel left
\* with no staff reply and no foreign embed, reports 'Cannot find a message'.
\* So the sequence open, one staff reply, edit, delete, edit ends in
\* 'Cannot find a message'.
C20_EndToEnd ==
    /\ [][ResolveAfterRelay /\ DeleteAfterEdit /\ ResolveAfterDelete]_vars
    /\ [](hout.e2e = 4 => hout.result = "cannot_find" /\ hout.found = NotFound)

\* the whole sequence has run
C20_Witness == hout.e2e = 4 /\ Len(history) = 1

\* ---- C21
\* the close actions of session t that have neither fired nor been cancelled
LiveActions(t) ==
    {a \in DOMAIN tasks : /\ tasks[a].thread = t
                          /\ ~tasks[a].cancelled
                          /\ tasks[a].phase \in {"pending", "firing"}}

\* the close actions of session t that cancel could still prevent from firing
PendingActions(t) ==
    {a \in DOMAIN tasks : /\ tasks[a].thread = t
                          /\ ~tasks[a].cancelled
                          /\ tasks[a].phase = "pending"}

TimerIffClosing ==
    \A t \in DOMAIN threads :
        threads[t].close_task # 0 <=> threads[t].state = "CLOSING"

OnePendingTimer ==
    \A t \in DOMAIN threads :
        /\ PendingActions(t) \subseteq {threads[t].close_task}
        /\ threads[t].close_task # 0 =>
              /\ threads[t].close_task \in DOMAIN tasks
              /\ tasks[threads[t].close_task].thread = t
              /\ ~tasks[threads[t].close_task].cancelled

CancelReturnsToActive ==
    (out'.op = "close" /\ out'.notice = "cancelled" /\ out'.ret = "true")
        => /\ threads[out'.thread].state = "CLOSING"
           /\ threads'[out'.thread].state = "ACTIVE"
           /\ threads'[out'.thread].close_task = 0
           /\ \A a \in DOMAIN tasks' :
                 tasks'[a].thread = out'.thread
                     => tasks'[a].cancelled \/ tasks'[a].phase # "pending"

PayloadFailure ==
    (out'.op = "close_payload" /\ out'.notice = "failed")
        => /\ tasks[out'.task].phase = "firing"
           /\ tasks'[out'.task].phase = "fired"
           /\ threads[out'.thread].state = "CLOSING"
           /\ threads' = threads /\ cache' = cache
           /\ \A b \in DOMAIN tasks \ {out'.task} : tasks'[b] = tasks[b]

\* a fired action is finished: it is never fired, run or reported again
FiredIsFinished ==
    \A a \in DOMAIN tasks :
        tasks[a].phase = "fired"
            => /\ tasks'[a] = tasks[a]
               /\ ~(out'.op \in {"timer_fire", "close_payload"} /\ out'.task = a)

\* the scheduler goes on serving: every pending action can still fire, every
\* committed one can still run its payload
ServesOthers ==
    \A b \in DOMAIN tasks :
        /\ tasks[b].phase = "pending" => ENABLED timer_fire(b)
        /\ tasks[b].phase = "firing" => ENABLED close_payload(b)

\* a CLOSING session with none of its actions under way changes only by a
\* close command given on it
StaysClosing ==
    \A t \in DOMAIN threads :
        (threads[t].state = "CLOSING" /\ LiveActions(t) = {} /\ threads'[t] # threads[t])
            => out'.op = "close" /\ out'.thread = t

C23_RefreshKeepsPushedChange ==
    [][(cout'.op = "refresh" /\ cout'.key = "fetched")
        => \A k \in RegistryKeys \cap DOMAIN ccache \cap DOMAIN remote :
              ccache[k] = remote[k] => ccache'[k] = ccache[k]]_vars

\* ---- C24
\* user u has an entry whose reason begins with 'System Message: '
SystemEntry(u) == u \in DOMAIN blocked /\ reserved(get_msg(u))

\* C24 as stated: a block command on a user whose stored reason begins with
\* 'System Message: ' leaves that stored reason as it is
C24_SystemReasonKept ==
    [][(bout'.op = "block" /\ SystemEntry(bout'.user))
        => blocked'[bout'.user] = blocked[bout'.user]]_vars

ReblockOfSystemEntry ==
    (bout'.op = "block" /\ SystemEntry(bout'.user))
        => IF bout'.result = "blocked"
           THEN /\ blocked'[bout'.user] = block_reason(
                       [given |-> bout'.given, arg |-> bout'.arg,
                        dt |-> bout'.dt, now |-> bout'.now])
                /\ store' = blocked'
                /\ bout'.old = blocked[bout'.user]
           ELSE /\ bout'.result \in {"bad_argument", "missing_argument"}
                /\ UNCHANGED <<blocked, store>>

\* C24, amended: a block command on a user whose stored reason begins with
\* 'System Message: ' replaces that reason by its own (the reason given, with
\* the expiry marker of a future expiry appended; None when no reason is
\* given), pushes it and names the system reason as the previous one; only a
\* command rejected for its reason leaves the entry as it is
C24_ReblockReplacesSystemReason == [][ReblockOfSystemEntry]_vars

\* a system entry has just been replaced by a block command given no reason
C24_Witness ==
    /\ bout.op = "block" /\ bout.result = "blocked" /\ ~bout.given
    /\ reserved(bout.old)
    /\ blocked[bout.user] = NoneReason

\* ---- C25
\* the entries a block command stored with an expiry in the future
TimedByUser(u) ==
    u \in DOMAIN blocked /\ origin[u].by = "user" /\ origin[u].dt >= 0

\* such an entry carries, after its reason, the one marker of that expiry,
\* and the user counts as blocked exactly until the expiry has passed
ExpiryHonoured ==
    \A u \in Users :
        /\ is_blocked(u, clock) => u \in DOMAIN blocked
        /\ (u \in DOMAIN blocked /\ ~re_search(get_msg(u))) => is_blocked(u, clock)
        /\ TimedByUser(u) =>
              /\ re_search(blocked[u])
              /\ re_group(blocked[u]) = isoformat(origin[u].dt)
              /\ is_blocked(u, clock) <=> clock <= origin[u].dt

\* the check of a user whose expiry has passed reports not blocked and
\* removes the entry
ExpiredIsPruned ==
    (bout'.op = "check" /\ TimedByUser(bout'.user) /\ clock > origin[bout'.user].dt)
        => /\ bout'.result = "not_blocked"
           /\ bout'.user \notin DOMAIN blocked'
           /\ store' = blocked'

\* C25: isBlocked(U, now) holds exactly when U has an entry that has no
\* trailing expiry marker or whose marker's time now has not passed; block with
\* an expiry in the future stores the reason with exactly one appended marker,
\* that of the expiry, and once now has passed it U is reported unblocked and
\* the check removes the entry
C25_BlockedUntilExpiry == []ExpiryHonoured /\ [][ExpiredIsPruned]_vars

\* ---- C29
\* block given no reason and no future expiry, on a user whose entry is an
\* ordinary one, reports 'already blocked' and changes nothing
AlreadyBlocked ==
    (/\ bout'.op = "block" /\ bout'.user \in DOMAIN blocked
     /\ ~reserved(get_msg(bout'.user))
     /\ block_reason([given |-> bout'.given, arg |-> bout'.arg,
                      dt |-> bout'.dt, now |-> bout'.now]) = NoneReason)
        => /\ bout'.result = "already_blocked"
           /\ UNCHANGED <<blocked, store>>

\* a block that reports success has stored its reason and pushed the cache
BlockedIsStored ==
    (bout'.op = "block" /\ bout'.result = "blocked")
        => /\ bout'.user \in DOMAIN blocked'
           /\ blocked'[bout'.user] =
                  block_reason([given |-> bout'.given, arg |-> bout'.arg,
                                dt |-> bout'.dt, now |-> bout'.now])
           /\ \A v \in DOMAIN blocked \ {bout'.user} :
                  v \in DOMAIN blocked' /\ blocked'[v] = blocked[v]
           /\ store' = blocked'

\* C29: block on a user already blocked with an ordinary reason, given no
\* reason and no future expiry, reports 'already blocked' and leaves the stored
\* reason and the pushed config as they were; whenever block reports success,
\* the registry holds the new reason for that user and the cache has been
\* pushed to the store
C29_AlreadyBlockedOrStored == [][AlreadyBlocked /\ BlockedIsStored]_vars

\* a user blocked for an ordinary reason was just blocked again with no reason
C29_Witness ==
    /\ bout.op = "block" /\ bout.result = "already_blocked" /\ ~bout.given
    /\ bout.user \in DOMAIN blocked
    /\ blocked[bout.user] = << "a" >>
    /\ store = blocked

\* ---- C26
\* the message id an edit or delete command was given, 0 when it was given none
ExplicitId(o) ==
    IF o.op = "edit" THEN o.arg[1]
    ELSE IF o.op = "delete" /\ int_(o.arg) > 0 THEN int_(o.arg)
    ELSE 0

\* a lookup by id finds the scanned message of that id when it is a relayed
\* one, and reports not-found, raising nothing, in every other case
ExplicitLookup ==
    ExplicitId(hout') # 0 =>
        LET ms == scanned(history)
            hit == {i \in DOMAIN ms : ms[i].id = ExplicitId(hout') /\ ms[i].url # NoUrl}
        IN  IF hit # {}
            THEN \E i \in hit : hout'.found = Found(last_segment(ms[i].url))
            ELSE hout'.found = NotFound /\ hout'.result = "cannot_find"

\* a lookup that reports not-found ends the command with its failure notice
\* and the channel untouched
NotFoundNoCall ==
    (/\ hout'.op \in {"edit", "delete"} /\ hout'.found = NotFound
     /\ hout'.result \notin {"bad_argument", "type_error"})
        => hout'.result = "cannot_find" /\ history' = history

\* C26 as stated: given an id, the lookup returns the logical id of the
\* message with that id when it lies among the scanned messages, and reports
\* not-found without raising when no scanned message has the id or the one
\* that has it is not a relayed message; on not-found, edit and delete send
\* their failure notice and edit or delete nothing
C26_ExplicitLookup == [][ExplicitLookup /\ NotFoundNoCall]_vars

\* ---- C27
\* the subscription set of a thread
Subscribed(t) == IF t \in DOMAIN subs THEN subs[t] ELSE <<>>

\* the registry entries of every thread but t stay as they are
OthersKept(reg, reg2, t) ==
    \A k \in ThreadIds \ {t} :
        /\ k \in DOMAIN reg2 <=> k \in DOMAIN reg
        /\ k \in DOMAIN reg => reg2[k] = reg[k]

NotifyFrame ==
    nout'.op = "notify"
        => /\ \A k \in ThreadIds : Subscribed(k)' = Subscribed(k)
           /\ OthersKept(squad, squad', nout'.thread)
           /\ nout'.result # "added"
                 => \A k \in ThreadIds : OneShot(k)' = OneShot(k)

SubscribeFrame ==
    nout'.op \in {"subscribe", "unsubscribe"}
        => /\ squad' = squad
           /\ OthersKept(subs, subs', nout'.thread)
           /\ nout'.result \notin {"added", "removed"}
                 => \A k \in ThreadIds : Subscribed(k)' = Subscribed(k)

\* C27: the one-shot and the subscription registry are independent and per
\* session: notify changes only the one-shot set of its own thread, subscribe
\* and unsubscribe only the subscription set of their own thread; none of them
\* changes the other registry or a set of another thread
C27_RegistriesIndependent == [][NotifyFrame /\ SubscribeFrame]_vars

\* notify has just added a mention in thread 1 while thread 2 holds a one-shot
\* mention and both threads hold subscriptions
C27_Witness ==
    /\ nout.op = "notify" /\ nout.result = "added" /\ nout.thread = 1
    /\ OneShot(2) # <<>>
    /\ Subscribed(1) # <<>> /\ Subscribed(2) # <<>>

\* ---- C28
\* the namespaces a key belongs to
Namespaces(k) ==
    {n \in {"user", "internal", "protected"} :
        \/ n = "user" /\ k \in allowed_to_change_in_command
        \/ n = "internal" /\ k \in internal_keys
        \/ n = "protected" /\ k \in protected_keys}

NamespacesPartition ==
    /\ allowed_to_change_in_command \cap internal_keys = {}
    /\ allowed_to_change_in_command \cap protected_keys = {}
    /\ internal_keys \cap protected_keys = {}
    /\ valid_keys = allowed_to_change_in_command \cup internal_keys \cup protected_keys
    /\ \A k \in valid_keys : Cardinality(Namespaces(k)) = 1

\* C28: the user-editable, the internal and the protected keys are pairwise
\* disjoint and together they are the valid keys; the cache populate_cache has
\* just built holds only keys written in lower case that belong to exactly one
\* of the three (cout.result lists the items as the comprehension wrote them)
C28_CacheKeysInOneNamespace ==
    /\ NamespacesPartition
    /\ cout.op = "populate_cache"
          => /\ \A i \in DOMAIN cout.result :
                   /\ Lower(cout.result[i][1]) = cout.result[i][1]
                   /\ \E k \in DOMAIN ccache :
                         /\ Spelling[k] = cout.result[i][1]
                         /\ Cardinality(Namespaces(k)) = 1
             /\ \A k \in DOMAIN ccache :
                   /\ Cardinality(Namespaces(k)) = 1
                   /\ \E i \in DOMAIN cout.result : cout.result[i][1] = Spelling[k]

\* the cache was just built from an environment that spells TOKEN in upper
\* case and has a variable that is no key
C28_Witness ==
    /\ cout.op = "populate_cache"
    /\ "token" \in DOMAIN ccache /\ ccache["token"] = NewValue
    /\ "log_level" \in DOMAIN ccache /\ ccache["log_level"] = Info
    /\ "prefix" \notin DOMAIN ccache
====
